---- MODULE Spec2Model ----
(***************************************************************************)
(* Model of scripts/fixPunctuation.js: the punctuation table, the combined *)
(* checker pattern, fixPunctuation, coordinatesOfChars and iterateFiles.   *)
(*                                                                         *)
(* A text is a sequence of characters.  A character is written as a        *)
(* string: an ASCII character as itself, any other by its code point.      *)
(* A regular expression of the table is an ordered sequence of             *)
(* alternatives, each alternative a literal sequence of characters.        *)
(***************************************************************************)
EXTENDS Integers, Sequences, FiniteSets, TLC

VARIABLES
    text, op, hit, fixed, refixed, coords,
    fs, fs0, paths, fix, pc, idx, fixedFileCount, errFlag, errFileCount,
    errCount, exitCode, reads, writes, report, runNo, prevFix

textVars == <<text, op, hit, fixed, refixed, coords>>
runVars == <<fs, fs0, paths, fix, pc, idx, fixedFileCount, errFlag,
             errFileCount, errCount, exitCode, reads, writes, report,
             runNo, prevFix>>
vars == <<textVars, runVars>>

----------------------------------------------------------------------------
(* Characters.                                                             *)

FWComma == "U+FF0C"
IdeoComma == "U+3001"
FullStop == "U+3002"
FWQuestion == "U+FF1F"
FWColon == "U+FF1A"
FWSemicolon == "U+FF1B"
LSQuote == "U+2018"
RSQuote == "U+2019"
LDQuote == "U+201C"
RDQuote == "U+201D"
FWLParen == "U+FF08"
FWRParen == "U+FF09"
LBracket == "U+3010"
RBracket == "U+3011"
LAngle == "U+300A"
RAngle == "U+300B"
Ellipsis == "U+2026"
NL == "\n"

(* The full-width characters the table's matchers start with.              *)
FullWidthChars ==
    {FWComma, IdeoComma, FullStop, FWQuestion, FWColon, FWSemicolon,
     LSQuote, RSQuote, LDQuote, RDQuote, FWLParen, FWRParen, LBracket,
     RBracket, LAngle, RAngle, Ellipsis}

----------------------------------------------------------------------------
(* The punctuation table.  Each entry is [k |-> matcher, v |-> replacement].*)
(* The last matcher is the source text  U+2026 { 1 , SPACE 2 }  : without  *)
(* the u flag a brace group that is not DecimalDigits[,DecimalDigits] (the *)
(* blank after the comma) is no quantifier, and every character of it is   *)
(* an ordinary pattern character.                                          *)

EllipsisMatcher == << <<Ellipsis, "{", "1", ",", " ", "2", "}">> >>

(* The comma matcher written with the half-width comma.                    *)
CommaMatcher_halfWidth == << <<",">>, <<IdeoComma>> >>

CommaMatcher == << <<FWComma>>, <<IdeoComma>> >>

PUNCTUATION_MAP ==
    << [k |-> CommaMatcher,                     v |-> <<",">>],
       [k |-> << <<FullStop>> >>,               v |-> <<".">>],
       [k |-> << <<FWQuestion>> >>,             v |-> <<"?">>],
       [k |-> << <<FWColon>> >>,                v |-> <<":">>],
       [k |-> << <<FWSemicolon>> >>,            v |-> <<";">>],
       [k |-> << <<LSQuote>>, <<RSQuote>> >>,   v |-> <<"'">>],
       [k |-> << <<LDQuote>>, <<RDQuote>> >>,   v |-> <<"\"">>],
       [k |-> << <<FWLParen>> >>,               v |-> <<"(">>],
       [k |-> << <<FWRParen>> >>,               v |-> <<")">>],
       [k |-> << <<LBracket>> >>,               v |-> <<"[">>],
       [k |-> << <<RBracket>> >>,               v |-> <<"]">>],
       [k |-> << <<LAngle>> >>,                 v |-> <<"<">>],
       [k |-> << <<RAngle>> >>,                 v |-> <<">">>],
       [k |-> EllipsisMatcher,                  v |-> <<".", ".", ".">>] >>

(* The sources joined with the empty string: one alternative, the         *)
(* concatenation of every alternative.                                     *)
RECURSIVE JoinSources_concat(_, _)
JoinSources_concat(map, r) ==
    IF r > Len(map) THEN << << >> >>
    ELSE LET rest == JoinSources_concat(map, r + 1)
             RECURSIVE Cat(_, _)
             Cat(alts, a) ==
                 IF a > Len(alts) THEN << >> ELSE alts[a] \o Cat(alts, a + 1)
         IN  << Cat(map[r].k, 1) \o rest[1] >>

(* sources.join('|'): the alternatives of all the matchers, in table order.*)
RECURSIVE JoinSources(_, _)
JoinSources(map, r) ==
    IF r > Len(map) THEN << >> ELSE map[r].k \o JoinSources(map, r + 1)

CHECKER_PATTERN == JoinSources(PUNCTUATION_MAP, 1)

----------------------------------------------------------------------------
(* Regular expression matching over literal alternatives.                  *)

(* The literal lit occurs in t at the 1-based position i.                  *)
MatchesAt(lit, t, i) ==
    /\ i + Len(lit) - 1 <= Len(t)
    /\ \A j \in 1..Len(lit) : t[i + j - 1] = lit[j]

(* Length of the match of re at position i (the first alternative that     *)
(* matches wins), 0 when none matches.                                     *)
MatchLen(re, t, i) ==
    LET hits == {a \in 1..Len(re) : MatchesAt(re[a], t, i)}
    IN  IF hits = {} THEN 0
        ELSE Len(re[CHOOSE a \in hits : \A b \in hits : a <= b])

(* RegExp.prototype.test of a pattern without the g flag.                  *)
RegExpTest(re, t) == \E i \in 1..Len(t) : MatchLen(re, t, i) > 0

(* String.prototype.matchAll with a global pattern: the 0-based index of   *)
(* every match, scanning left to right, matches not overlapping.           *)
RECURSIVE MatchAllFrom(_, _, _)
MatchAllFrom(re, t, i) ==
    IF i > Len(t) THEN << >>
    ELSE LET n == MatchLen(re, t, i)
         IN  IF n > 0 THEN <<i - 1>> \o MatchAllFrom(re, t, i + n)
             ELSE MatchAllFrom(re, t, i + 1)

MatchAll(re, t) == MatchAllFrom(re, t, 1)

(* replace with a pattern that lacks the g flag: the first match only.     *)
RECURSIVE ReplaceFirstFrom(_, _, _, _)
ReplaceFirstFrom(t, re, v, i) ==
    IF i > Len(t) THEN << >>
    ELSE LET n == MatchLen(re, t, i)
         IN  IF n > 0 THEN v \o SubSeq(t, i + n, Len(t))
             ELSE <<t[i]>> \o ReplaceFirstFrom(t, re, v, i + 1)

Replace_first(t, re, v) == ReplaceFirstFrom(t, re, v, 1)

(* String.prototype.replace with a global pattern and a literal string.    *)
RECURSIVE ReplaceFrom(_, _, _, _)
ReplaceFrom(t, re, v, i) ==
    IF i > Len(t) THEN << >>
    ELSE LET n == MatchLen(re, t, i)
         IN  IF n > 0 THEN v \o ReplaceFrom(t, re, v, i + n)
             ELSE <<t[i]>> \o ReplaceFrom(t, re, v, i + 1)

Replace(t, re, v) == ReplaceFrom(t, re, v, 1)

(* String.prototype.split('\n'): the segments between the newlines.        *)
RECURSIVE SplitFrom(_, _, _)
SplitFrom(t, i, cur) ==
    IF i > Len(t) THEN <<cur>>
    ELSE IF t[i] = NL THEN <<cur>> \o SplitFrom(t, i + 1, << >>)
         ELSE SplitFrom(t, i + 1, Append(cur, t[i]))

Split(t) == SplitFrom(t, 1, << >>)

(* String.prototype.substring(from, to) with 0-based, end-exclusive bounds.*)
Substring(t, from, to) == SubSeq(t, from + 1, to)

----------------------------------------------------------------------------
(* The two text functions of the script.                                   *)

(* The table walked from its last rule to its first.                       *)
RECURSIVE FixDown(_, _)
FixDown(result, r) ==
    IF r < 1 THEN result
    ELSE FixDown(Replace(result, PUNCTUATION_MAP[r].k, PUNCTUATION_MAP[r].v),
                 r - 1)

fixPunctuation_reversed(content) == FixDown(content, Len(PUNCTUATION_MAP))

(* for (const [k, v] of PUNCTUATION_MAP) result = result.replace(k, v)     *)
RECURSIVE FixFrom(_, _)
FixFrom(result, r) ==
    IF r > Len(PUNCTUATION_MAP) THEN result
    ELSE FixFrom(Replace(result, PUNCTUATION_MAP[r].k, PUNCTUATION_MAP[r].v),
                 r + 1)

fixPunctuation(content) == FixFrom(content, 1)

(* One coordinate [lineNumber, colNumber, char] per match of the pattern.  *)
coordinatesOfChars(pattern, t) ==
    LET matches == MatchAll(pattern, t)
    IN  [n \in 1..Len(matches) |->
            LET anchor == matches[n]
                lines == Split(Substring(t, 0, anchor + 1))
                lineNumber == Len(lines)
                colNumber == Len(lines[Len(lines)]) + 1
            IN  <<lineNumber, colNumber, t[anchor + 1]>>]

----------------------------------------------------------------------------
(* Input texts: the concatenations of at most MaxFragments fragments.      *)

MaxFragments == 4

Fragments ==
    { <<FWComma>>, <<FullStop>>, <<Ellipsis>>, <<"{", "1">>, <<",">>,
      <<" ", "2", "}">>, <<NL>>, <<"a">> }

RECURSIVE Flatten(_, _)
Flatten(fr, n) == IF n > Len(fr) THEN << >> ELSE fr[n] \o Flatten(fr, n + 1)

Texts ==
    { Flatten(fr, 1) :
        fr \in UNION { [1..n -> Fragments] : n \in 0..MaxFragments } }

----------------------------------------------------------------------------
(* Inputs of a run of iterateFiles: the files on disk and the path list.   *)

MaxPaths == 2
MaxRuns == 2

Paths == {"a.md", "b.md"}

FileTexts ==
    { << >>,
      <<"a", NL, "a">>,
      <<FWComma>>,
      <<"a", FullStop, NL, FWComma, FWComma>>,
      <<Ellipsis>>,
      <<Ellipsis, "{", "1", FWComma, " ", "2", "}">> }

PathLists == UNION { [1..n -> Paths] : n \in 0..MaxPaths }

IdleRun ==
    /\ fs = [p \in Paths |-> << >>]
    /\ fs0 = fs
    /\ paths = << >>
    /\ fix = FALSE
    /\ pc = "idle"
    /\ idx = 0
    /\ fixedFileCount = 0
    /\ errFlag = FALSE
    /\ errFileCount = 0
    /\ errCount = 0
    /\ exitCode = 0
    /\ reads = << >>
    /\ writes = << >>
    /\ report = << >>
    /\ runNo = 0
    /\ prevFix = FALSE

IdleText ==
    /\ text = << >>
    /\ op = "none"
    /\ hit = FALSE
    /\ fixed = << >>
    /\ refixed = << >>
    /\ coords = << >>

----------------------------------------------------------------------------
(* The text functions applied to one input text.                           *)

Init ==
    /\ text \in Texts
    /\ op = "none"
    /\ hit = FALSE
    /\ fixed = << >>
    /\ refixed = << >>
    /\ coords = << >>
    /\ IdleRun

(* CHECKER_PATTERN.test(fileContent)                                       *)
Test ==
    /\ op = "none"
    /\ op' = "test"
    /\ hit' = RegExpTest(CHECKER_PATTERN, text)
    /\ UNCHANGED <<text, fixed, refixed, coords, runVars>>

(* fixPunctuation(fileContent)                                             *)
Fix ==
    /\ op = "none"
    /\ op' = "fix"
    /\ fixed' = fixPunctuation(text)
    /\ UNCHANGED <<text, hit, refixed, coords, runVars>>

(* fixPunctuation applied to its own result.                               *)
FixAgain ==
    /\ op = "fix"
    /\ op' = "refix"
    /\ refixed' = fixPunctuation(fixed)
    /\ UNCHANGED <<text, hit, fixed, coords, runVars>>

(* coordinatesOfChars(CHECKER_PATTERN, fileContent)                        *)
Locate ==
    /\ op = "none"
    /\ op' = "locate"
    /\ coords' = coordinatesOfChars(CHECKER_PATTERN, text)
    /\ UNCHANGED <<text, hit, fixed, refixed, runVars>>

Next == Test \/ Fix \/ FixAgain \/ Locate

Spec == Init /\ [][Next]_vars

----------------------------------------------------------------------------
(* A run of iterateFiles(paths, fixPunctuation, fix), one file per step.   *)

InitRun ==
    /\ IdleText
    /\ fs \in [Paths -> FileTexts]
    /\ fs0 = fs
    /\ paths \in PathLists
    /\ fix \in BOOLEAN
    /\ pc = "loop"
    /\ idx = 0
    /\ fixedFileCount = 0
    /\ errFlag = FALSE
    /\ errFileCount = 0
    /\ errCount = 0
    /\ exitCode = 0
    /\ reads = << >>
    /\ writes = << >>
    /\ report = << >>
    /\ runNo = 1
    /\ prevFix = FALSE

(* The path of the iteration and the content readFileSync returns for it.  *)
path == paths[idx + 1]
fileContent == fs[path]

InLoop == pc = "loop" /\ idx < Len(paths)

(* One line of the log: the file's mark and the coordinates printed.       *)
Logged(mark, coordinates) ==
    /\ idx' = idx + 1
    /\ reads' = Append(reads, path)
    /\ report' = Append(report, [path |-> path, mark |-> mark,
                                 coordinates |-> coordinates])

(* A clean file that is written back all the same.                         *)
IterClean_rewrite ==
    /\ InLoop
    /\ ~RegExpTest(CHECKER_PATTERN, fileContent)
    /\ Logged("clean", << >>)
    /\ writes' = Append(writes, <<path, fileContent>>)
    /\ UNCHANGED <<fs, fs0, paths, fix, pc, fixedFileCount, errFlag,
                   errFileCount, errCount, exitCode, runNo, prevFix, textVars>>

(* if (!CHECKER_PATTERN.test(fileContent)) { log; continue }               *)
IterClean ==
    /\ InLoop
    /\ ~RegExpTest(CHECKER_PATTERN, fileContent)
    /\ Logged("clean", << >>)
    /\ UNCHANGED <<fs, fs0, paths, fix, pc, fixedFileCount, errFlag,
                   errFileCount, errCount, exitCode, writes, runNo, prevFix,
                   textVars>>

(* if (fix) { writeFileSync(absPath, processer(fileContent)); ... }        *)
IterFix ==
    /\ InLoop
    /\ RegExpTest(CHECKER_PATTERN, fileContent)
    /\ fix
    /\ LET fixedContent == fixPunctuation(fileContent)
       IN  /\ fs' = [fs EXCEPT ![path] = fixedContent]
           /\ writes' = Append(writes, <<path, fixedContent>>)
    /\ fixedFileCount' = fixedFileCount + 1
    /\ Logged("fixed", << >>)
    /\ UNCHANGED <<fs0, paths, fix, pc, errFlag, errFileCount, errCount,
                   exitCode, runNo, prevFix, textVars>>

(* An errored file that ends the run at once.                              *)
IterError_failFast ==
    /\ InLoop
    /\ RegExpTest(CHECKER_PATTERN, fileContent)
    /\ ~fix
    /\ errFlag' = TRUE
    /\ errFileCount' = errFileCount + 1
    /\ LET coordinates == coordinatesOfChars(CHECKER_PATTERN, fileContent)
       IN  /\ errCount' = errCount + Len(coordinates)
           /\ Logged("errored", coordinates)
    /\ pc' = "done"
    /\ exitCode' = 1
    /\ UNCHANGED <<fs, fs0, paths, fix, fixedFileCount, writes, runNo,
                   prevFix, textVars>>

(* else { errFlag = true; errFileCount++; errCount += coordinates.length } *)
IterError ==
    /\ InLoop
    /\ RegExpTest(CHECKER_PATTERN, fileContent)
    /\ ~fix
    /\ errFlag' = TRUE
    /\ errFileCount' = errFileCount + 1
    /\ LET coordinates == coordinatesOfChars(CHECKER_PATTERN, fileContent)
       IN  /\ errCount' = errCount + Len(coordinates)
           /\ Logged("errored", coordinates)
    /\ UNCHANGED <<fs, fs0, paths, fix, pc, fixedFileCount, exitCode, writes,
                   runNo, prevFix, textVars>>

(* exit(1) whenever the run was a detection run.                           *)
ExitStatus_detection(fixMode, flag) == IF fixMode THEN 0 ELSE 1

(* if (!fix) { if (errFlag) exit(1) }: otherwise the process ends with 0.  *)
ExitStatus(fixMode, flag) == IF ~fixMode /\ flag THEN 1 ELSE 0

(* The summary after the loop.                                             *)
Summary ==
    /\ pc = "loop"
    /\ idx = Len(paths)
    /\ pc' = "done"
    /\ exitCode' = ExitStatus(fix, errFlag)
    /\ UNCHANGED <<fs, fs0, paths, fix, idx, fixedFileCount, errFlag,
                   errFileCount, errCount, reads, writes, report, runNo,
                   prevFix, textVars>>

(* The script started again over the same paths: main() and a new          *)
(* iterateFiles with its counters at their initial values.                 *)
main ==
    /\ pc = "done"
    /\ runNo < MaxRuns
    /\ runNo' = runNo + 1
    /\ prevFix' = fix
    /\ fix' \in BOOLEAN
    /\ fs0' = fs
    /\ pc' = "loop"
    /\ idx' = 0
    /\ fixedFileCount' = 0
    /\ errFlag' = FALSE
    /\ errFileCount' = 0
    /\ errCount' = 0
    /\ exitCode' = 0
    /\ reads' = << >>
    /\ writes' = << >>
    /\ report' = << >>
    /\ UNCHANGED <<fs, paths, textVars>>

NextRun == IterClean \/ IterFix \/ IterError \/ Summary \/ main

SpecRun == InitRun /\ [][NextRun]_vars

----------------------------------------------------------------------------
(* Helpers of the properties.                                              *)

Chars(t) == {t[i] : i \in 1..Len(t)}

(* Number of newline characters before the 0-based position anchor.        *)
NewlinesBefore(t, anchor) == Cardinality({i \in 1..anchor : t[i] = NL})

(* 1-based offset of the 0-based position anchor within its line.          *)
OffsetInLine(t, anchor) ==
    LET nls == {i \in 1..anchor : t[i] = NL}
        lastNL == IF nls = {} THEN 0
                  ELSE CHOOSE i \in nls : \A j \in nls : j <= i
    IN  anchor - lastNL + 1

(* The rule of the table, if any, whose matcher matches t at position i.   *)
RulesAt(t, i) ==
    {r \in 1..Len(PUNCTUATION_MAP) : MatchLen(PUNCTUATION_MAP[r].k, t, i) > 0}

(* One pass over the original text that replaces each match of the         *)
(* combined pattern by the replacement of the rule that matches there.     *)
RECURSIVE SimultaneousFrom(_, _)
SimultaneousFrom(t, i) ==
    IF i > Len(t) THEN << >>
    ELSE IF RulesAt(t, i) = {} THEN <<t[i]>> \o SimultaneousFrom(t, i + 1)
         ELSE LET r == CHOOSE q \in RulesAt(t, i) :
                           \A q2 \in RulesAt(t, i) : q <= q2
              IN  PUNCTUATION_MAP[r].v \o
                  SimultaneousFrom(t, i + MatchLen(PUNCTUATION_MAP[r].k, t, i))

(* Sum over the rules of the matches each matcher finds on its own.        *)
RECURSIVE PerRuleMatches(_, _)
PerRuleMatches(t, r) ==
    IF r > Len(PUNCTUATION_MAP) THEN 0
    ELSE Len(MatchAll(PUNCTUATION_MAP[r].k, t)) + PerRuleMatches(t, r + 1)

(* (line, column) of coordinate a comes before that of coordinate b.       *)
Before(a, b) == a[1] < b[1] \/ (a[1] = b[1] /\ a[2] < b[2])

(* The existence test on the content the run found in the file of entry i. *)
EntryMatches(i) == RegExpTest(CHECKER_PATTERN, fs0[paths[i]])

RECURSIVE EntryErrors(_)
EntryErrors(i) ==
    IF i > Len(paths) THEN 0
    ELSE Len(coordinatesOfChars(CHECKER_PATTERN, fs0[paths[i]]))
         + EntryErrors(i + 1)

WritesTo(p) == {n \in 1..Len(writes) : writes[n][1] = p}

----------------------------------------------------------------------------
(* Properties of the text functions (specification Spec).                  *)

(* C1: every coordinate coordinatesOfChars returns has line = 1 + the      *)
(* number of newlines before the match and column = the 1-based offset of  *)
(* the match within its line.                                              *)
C1_LineAndColumn ==
    op = "locate" =>
        LET matches == MatchAll(CHECKER_PATTERN, text)
        IN  /\ Len(coords) = Len(matches)
            /\ \A n \in 1..Len(coords) :
                  /\ coords[n][1] = 1 + NewlinesBefore(text, matches[n])
                  /\ coords[n][2] = OffsetInLine(text, matches[n])

(* C2: fixPunctuation returns the text in which exactly the matches found  *)
(* in the input are replaced, each by its rule's replacement, and every    *)
(* other character of the input is kept.                                   *)
C2_ReplacesInputMatchesOnly ==
    op = "fix" => fixed = SimultaneousFrom(text, 1)

(* C3: a text that contains the ellipsis character passes the existence    *)
(* test, the fixed text holds no ellipsis character, and the text of one   *)
(* ellipsis character is fixed to three full stops.                        *)
C3_EllipsisRule ==
    /\ (op = "test" /\ Ellipsis \in Chars(text)) => hit
    /\ op = "fix" => Ellipsis \notin Chars(fixed)
    /\ (op = "fix" /\ text = <<Ellipsis>>) => fixed = <<".", ".", ".">>

(* C4: fixPunctuation applied to its own result returns that result.       *)
C4_Idempotent == op = "refix" => refixed = fixed

C4_Witness == op = "refix" /\ fixed # text /\ Len(fixed) < Len(text)

(* C5: on a text without any full-width character of the table the test    *)
(* is false, no coordinate is returned and fixPunctuation returns the      *)
(* text itself.                                                            *)
C5_CleanTextUntouched ==
    Chars(text) \cap FullWidthChars = {} =>
        /\ op = "test" => ~hit
        /\ op = "locate" => coords = << >>
        /\ op = "fix" => fixed = text

C5_Witness ==
    /\ Chars(text) \cap FullWidthChars = {}
    /\ op = "fix"
    /\ {",", "{", NL} \subseteq Chars(text)

(* C6: coordinatesOfChars returns one coordinate per occurrence, in        *)
(* ascending order of position, and as many as the matchers of the table   *)
(* find when each scans the text on its own.                               *)
C6_OnePerMatchAscending ==
    op = "locate" =>
        /\ Len(coords) = PerRuleMatches(text, 1)
        /\ Len(coords) =
              Cardinality({i \in 1..Len(text) :
                              MatchLen(CHECKER_PATTERN, text, i) > 0})
        /\ \A n \in 1..Len(coords) - 1 : Before(coords[n], coords[n + 1])

C6_Witness ==
    /\ op = "locate"
    /\ Len(coords) = 3
    /\ coords[1][3] = coords[3][3]
    /\ coords[1][3] # coords[2][3]
    /\ coords[1][1] < coords[3][1]

----------------------------------------------------------------------------
(* Properties of a run of iterateFiles (specification SpecRun).            *)

(* C7: a finished detection run has exit code 1 exactly when a file of the *)
(* list matches, and 0 otherwise; a finished fix run has exit code 0.      *)
C7_ExitContract ==
    pc = "done" =>
        /\ ~fix => (exitCode = 1 <=> \E i \in 1..Len(paths) : EntryMatches(i))
        /\ ~fix => exitCode \in {0, 1}
        /\ fix => exitCode = 0

C7_Witness ==
    /\ pc = "done"
    /\ ~fix
    /\ exitCode = 1
    /\ Len(paths) = 2
    /\ ~EntryMatches(2)

(* C8: the failure status is raised only when every file of the list has   *)
(* been read and reported, in list order; a finished detection run counts  *)
(* the matching files and the coordinates of all of them.                  *)
C8_FailAtEnd ==
    /\ exitCode = 1 => (pc = "done" /\ idx = Len(paths) /\ reads = paths)
    /\ (pc = "done" /\ ~fix) =>
          /\ Len(report) = Len(paths)
          /\ \A i \in 1..Len(paths) :
                /\ report[i].path = paths[i]
                /\ report[i].mark =
                      IF EntryMatches(i) THEN "errored" ELSE "clean"
                /\ report[i].coordinates =
                      coordinatesOfChars(CHECKER_PATTERN, fs0[paths[i]])
          /\ errFileCount =
                Cardinality({i \in 1..Len(paths) : EntryMatches(i)})
          /\ errCount = EntryErrors(1)

C8_Witness ==
    /\ pc = "done"
    /\ exitCode = 1
    /\ Len(report) = 2
    /\ report[1].mark = "errored"
    /\ report[2].mark = "clean"
    /\ errFileCount = 1
    /\ errCount = 3

(* C9: every entry of the list is read once, in order; a detection run     *)
(* writes nothing; a fix run writes a file once, with fixPunctuation of    *)
(* its content, exactly when that content matches, and leaves the other    *)
(* files as they were.                                                     *)
C9_WritesOnlyFixes ==
    /\ reads = SubSeq(paths, 1, idx)
    /\ pc = "done" => reads = paths
    /\ ~fix => (writes = << >> /\ fs = fs0)
    /\ (fix /\ pc = "done") =>
          \A p \in Paths :
              IF (\E i \in 1..Len(paths) : paths[i] = p)
                 /\ RegExpTest(CHECKER_PATTERN, fs0[p])
              THEN /\ Cardinality(WritesTo(p)) = 1
                   /\ \A n \in WritesTo(p) :
                         writes[n][2] = fixPunctuation(fs0[p])
                   /\ fs[p] = fixPunctuation(fs0[p])
              ELSE /\ WritesTo(p) = {}
                   /\ fs[p] = fs0[p]

C9_Witness ==
    /\ pc = "done"
    /\ fix
    /\ Len(paths) = 2
    /\ paths[1] # paths[2]
    /\ Len(writes) = 1
    /\ writes[1][1] = paths[2]
    /\ fs[paths[2]] # fs0[paths[2]]

(* The existence test is false on every fixed text.                        *)
FixedTextsAreClean ==
    \A t \in Texts :
        /\ ~RegExpTest(CHECKER_PATTERN, fixPunctuation(t))
        /\ coordinatesOfChars(CHECKER_PATTERN, fixPunctuation(t)) = << >>

(* C10: the existence test is false on every fixed text; a run that        *)
(* follows a fix run over the same paths finds every file clean: as a      *)
(* detection run it counts no error and ends with 0, as a fix run it       *)
(* fixes and writes nothing.                                               *)
C10_FixThenDetect ==
    /\ FixedTextsAreClean
    /\ (runNo > 1 /\ prevFix) =>
          /\ ~errFlag
          /\ errFileCount = 0
          /\ errCount = 0
          /\ fixedFileCount = 0
          /\ writes = << >>
          /\ exitCode = 0
          /\ \A i \in 1..Len(report) : report[i].mark = "clean"

C10_Witness ==
    /\ runNo = 2
    /\ prevFix
    /\ ~fix
    /\ pc = "done"
    /\ Len(paths) = 2
    /\ fs[paths[1]] = <<".", ".", ".">>
    /\ fs[paths[2]] = <<",">>

====
